---- MODULE Spec2Model ----
(***************************************************************************)
(* Latency measurement tool (src/src/main.rs).                             *)
(*                                                                         *)
(* The program reads the outbound capture into a table PacketId ->         *)
(* PacketTime, then reads the inbound capture and, for every record that   *)
(* yields an identity, removes the identity from the table (hit, latency   *)
(* recorded) or counts a miss; it ends by printing a summary line.         *)
(*                                                                         *)
(* Representation notes.                                                   *)
(*  - A frame is the sequence of its bytes (1-based here, 0-based in the   *)
(*    code: byte number n of the code is element n+1).                     *)
(*  - Integers of the program are TLC integers.  The main specifications   *)
(*    draw timestamps and header fields small enough for that to be exact; *)
(*    i64::MAX is I64_MAX, which is only ever compared.  The full u32      *)
(*    range of PacketTime::diff is covered by the limb arithmetic of       *)
(*    SpecDiff.                                                            *)
(*  - The f64 miss percentage is kept as the exact fraction num/den.       *)
(*                                                                         *)
(* Specifications.                                                         *)
(*  - Spec: runs of main over captures of records with two identities.     *)
(*  - SpecFrames: runs of main over captures with one frame of every kind. *)
(*  - SpecFilter: PcapReader::match_filter applied to frames and filters.  *)
(*  - SpecDiff: PacketTime::diff applied to times over the u32 range.      *)
(***************************************************************************)
EXTENDS Integers, Sequences, FiniteSets, TLC

VARIABLES
    outFile,        \* the outbound capture file: the names of its records, in order
    inFile,         \* the inbound capture file
    filter,         \* Vec<(usize, u8)>, main.rs:184-191
    disable_printing, \* args.disable_printing
    pc,             \* position of main
    out_reader,     \* PcapReader over outFile
    in_reader,      \* PcapReader over inFile (NoReader until main.rs:199)
    item,           \* the (PacketId, PacketTime) the iterator last returned
    out_interface_table,
    latency_sum, latency_min, latency_max, latency_hit_count,
    miss_count, in_interface_packet_count,
    stdout,         \* the lines printed so far
    stderr,         \* the panic message, if the run panicked
    log,            \* history: one entry per inbound (identity, time) processed
    fn_in,          \* the arguments of a function applied on its own (SpecDiff, SpecFilter)
    fn_out          \* and its result

vars == <<outFile, inFile, filter, disable_printing, pc, out_reader, in_reader,
          item, out_interface_table, latency_sum, latency_min, latency_max,
          latency_hit_count, miss_count, in_interface_packet_count, stdout, stderr,
          log, fn_in, fn_out>>

stats == <<latency_sum, latency_min, latency_max, latency_hit_count,
           miss_count, in_interface_packet_count>>

inputs == <<outFile, inFile, filter, disable_printing>>

program == <<inputs, pc, out_reader, in_reader, item, out_interface_table, stats,
             stdout, stderr, log>>

----------------------------------------------------------------------------
(* Bounds of the model *)

MaxOut == 2         \* records in the outbound capture (Spec)
MaxIn == 2          \* records in the inbound capture (Spec)
MaxOutFrames == 1   \* records in the outbound capture (SpecFrames)
MaxInFrames == 2    \* records in the inbound capture (SpecFrames)
BufBlocks == 2      \* blocks the reader's buffer holds at once
MaxFrameLen == 3    \* bytes of a frame (SpecFilter)
MaxFilterLen == 2   \* constraints of a filter (SpecFilter)

(* Program constants *)

ETH_HDR == 14       \* EthernetPacket::minimum_packet_size()
IPV4_HDR == 20      \* Ipv4Packet::minimum_packet_size()
TCP_HDR == 20       \* TcpPacket::minimum_packet_size()
ICMP_HDR == 4       \* IcmpPacket::minimum_packet_size()
PROTO_TCP == 6      \* IpNextHeaderProtocols::Tcp
PROTO_ICMP == 1     \* IpNextHeaderProtocols::Icmp
USEC_PER_SEC == 1000000

\* i64::MAX (main.rs:202).  TLC integers are 32 bits wide, so the largest of
\* them stands for 9223372036854775807; it is above every latency of the model
\* and is only ever compared, never used in arithmetic (the summary panics on
\* the division before the jitter is computed when no hit has replaced it).
I64_MAX == 2147483647

----------------------------------------------------------------------------
(* Option<T> *)

None == [some |-> FALSE]
Some(v) == [some |-> TRUE, val |-> v]

Min(a, b) == IF a <= b THEN a ELSE b
SatSub(a, b) == IF a >= b THEN a - b ELSE 0     \* usize::saturating_sub

\* bytes[from..to] of the code (0-based, to exclusive)
Slice(bytes, from, to) == SubSeq(bytes, from + 1, to)
Byte(bytes, n) == bytes[n + 1]
BE16(bytes, n) == Byte(bytes, n) * 256 + Byte(bytes, n + 1)
BE32(bytes, n) == (BE16(bytes, n) * 256 + Byte(bytes, n + 2)) * 256 + Byte(bytes, n + 3)

----------------------------------------------------------------------------
(* PacketId::new_from_bytes, main.rs:65-98, over pnet's packet views.      *)
(* The result is [panic |-> TRUE] for the unwrap() of a None, and          *)
(* [panic |-> FALSE, id |-> Option<PacketId>] otherwise.                   *)

\* Ipv4Packet::payload(): options and payload lengths come from the header
Ipv4Payload(l3) ==
    LET ihl == Byte(l3, 0) % 16
        total == BE16(l3, 2)
        start == IPV4_HDR + SatSub(ihl, 5) * 4
        end == Min(start + SatSub(total, ihl * 4), Len(l3))
    IN IF Len(l3) <= start THEN <<>> ELSE Slice(l3, start, end)

new_from_bytes(bytes) ==
    IF Len(bytes) < ETH_HDR THEN [panic |-> FALSE, id |-> None]     \* line 66
    ELSE LET l3 == Slice(bytes, ETH_HDR, Len(bytes)) IN
    IF Len(l3) < IPV4_HDR THEN [panic |-> FALSE, id |-> None]       \* line 67
    ELSE LET ip_src == Slice(l3, 12, 16)
             ip_dst == Slice(l3, 16, 20)
             proto == Byte(l3, 9)
             l4 == Ipv4Payload(l3) IN
    IF proto = PROTO_TCP THEN
        IF Len(l4) < TCP_HDR THEN [panic |-> TRUE]                  \* line 72
        ELSE [panic |-> FALSE, id |-> Some(
                [kind |-> "Tcp", ip_src |-> ip_src, ip_dst |-> ip_dst,
                 port_src |-> BE16(l4, 0), port_dst |-> BE16(l4, 2),
                 tcp_seq |-> BE32(l4, 4), tcp_ack |-> BE32(l4, 8)])]
    ELSE IF proto = PROTO_ICMP THEN
        IF Len(l4) < ICMP_HDR THEN [panic |-> TRUE]                 \* line 87
        ELSE [panic |-> FALSE, id |-> Some(
                [kind |-> "Icmp", ip_src |-> ip_src, ip_dst |-> ip_dst,
                 checksum |-> BE16(l4, 2)])]
    ELSE [panic |-> FALSE, id |-> None]                             \* line 95

----------------------------------------------------------------------------
(* PacketTime::diff, main.rs:107-109 *)

\* variants of diff with a slip: the operands exchanged, the last term forgotten
diff_swapped(t1, t2) ==
    t2.sec * USEC_PER_SEC + t2.usec - t1.sec * USEC_PER_SEC - t1.usec
diff_without_usec(t1, t2) ==
    t1.sec * USEC_PER_SEC + t1.usec - t2.sec * USEC_PER_SEC

diff(t1, t2) ==
    t1.sec * USEC_PER_SEC + t1.usec - t2.sec * USEC_PER_SEC - t2.usec

abs(x) == IF x < 0 THEN -x ELSE x

----------------------------------------------------------------------------
(* PacketTime::diff over the whole u32 range.  TLC integers are 32 bits    *)
(* wide, so the operands are kept in limbs of base 1_000_000:              *)
(*   a u32 is <<h, l>>, the number h * 10^6 + l, 0 <= l < 10^6;            *)
(*   an i64 is <<a, b, c>>, the number a * 10^12 + b * 10^6 + c, with      *)
(*   0 <= b, c < 10^6 and a of either sign.                                *)

BASE == USEC_PER_SEC
U32_MAX == <<4294, 967295>>                     \* 4294967295
I64_MAX_W == <<9223372, 36854, 775807>>         \* 9223372036854775807
I64_MIN_W == <<-9223373, 963145, 224192>>       \* -9223372036854775808

Norm(x) ==
    LET c == x[3] % BASE
        b0 == x[2] + (x[3] \div BASE)
    IN <<x[1] + (b0 \div BASE), b0 % BASE, c>>
WLe(x, y) ==
    \/ x[1] < y[1]
    \/ x[1] = y[1] /\ x[2] < y[2]
    \/ x[1] = y[1] /\ x[2] = y[2] /\ x[3] <= y[3]
InI64(x) == WLe(I64_MIN_W, x) /\ WLe(x, I64_MAX_W)
AsI64(u) == <<0, u[1], u[2]>>                    \* `as i64` of a u32
WAdd(x, y) == Norm(<<x[1] + y[1], x[2] + y[2], x[3] + y[3]>>)
WSub(x, y) == Norm(<<x[1] - y[1], x[2] - y[2], x[3] - y[3]>>)
WMulMillion(x) == <<x[1] * BASE + x[2], x[3], 0>>  \* `* 1_000_000`: one limb up

\* main.rs:108, operation by operation, left to right; overflow tells whether
\* any intermediate result leaves the i64 range
diff64_steps(t1, t2) ==
    LET r1 == WMulMillion(AsI64(t1.sec))
        r2 == WAdd(r1, AsI64(t1.usec))
        r3 == WMulMillion(AsI64(t2.sec))
        r4 == WSub(r2, r3)
        r5 == WSub(r4, AsI64(t2.usec))
    IN <<r1, r2, r3, r4, r5>>

\* variant with a slip: the operands exchanged
diff64_swapped(t1, t2) ==
    LET r == diff64_steps(t2, t1)
    IN [overflow |-> \E i \in 1..5 : ~InI64(r[i]), val |-> r[5]]

diff64(t1, t2) ==
    LET r == diff64_steps(t1, t2)
    IN [overflow |-> \E i \in 1..5 : ~InI64(r[i]), val |-> r[5]]

----------------------------------------------------------------------------
(* PcapReader::match_filter, main.rs:124-139: the loop over the filter,    *)
(* from its element i on.                                                  *)

RECURSIVE filter_loop(_, _, _)
filter_loop(bytes, f, i) ==
    IF i > Len(f) THEN TRUE                                         \* line 138
    ELSE LET byte_number == f[i][1]
             byte_value == f[i][2] IN
         IF Len(bytes) <= byte_number THEN FALSE                    \* line 129
         ELSE IF Byte(bytes, byte_number) = byte_value
              THEN filter_loop(bytes, f, i + 1)                     \* line 133
              ELSE FALSE                                            \* line 135

\* variant of match_filter with a slip: it returns after the first constraint
match_filter_first_only(bytes, f) ==
    IF Len(f) = 0 THEN TRUE ELSE filter_loop(bytes, SubSeq(f, 1, 1), 1)

match_filter(bytes, f) ==
    IF Len(f) = 0 THEN TRUE                                         \* line 125
    ELSE filter_loop(bytes, f, 1)

----------------------------------------------------------------------------
(* The captures the model runs on: frames are built byte by byte, so that  *)
(* the filter and the parser read them at the offsets the code uses.       *)

Zeros(n) == [i \in 1..n |-> 0]
U16(n) == <<n \div 256, n % 256>>
U32(n) == U16(n \div 65536) \o U16(n % 65536)

\* ethertypes: 2048 (0x0800) IPv4, 34525 (0x86DD) IPv6; IPv4 protocol 17 is UDP
Eth(ethertype, payload) == Zeros(12) \o U16(ethertype) \o payload
Ipv4Hdr(total, ttl, proto, src, dst) ==
    <<69, 0>> \o U16(total) \o <<0, 0, 64, 0, ttl, proto, 0, 0>> \o src \o dst
TcpHdr(sport, dport, seq, ack) ==
    U16(sport) \o U16(dport) \o U32(seq) \o U32(ack) \o <<80, 16, 1, 0, 0, 0, 0, 0>>

IpA == <<10, 0, 0, 1>>
IpB == <<10, 0, 0, 2>>

\* the same TCP segment seen at two capture points: only the TTL differs
FrameTcp ==
    Eth(2048, Ipv4Hdr(40, 64, PROTO_TCP, IpA, IpB) \o TcpHdr(1234, 80, 1000, 2000))
FrameTcpHop ==
    Eth(2048, Ipv4Hdr(40, 63, PROTO_TCP, IpA, IpB) \o TcpHdr(1234, 80, 1000, 2000))
FrameIcmp ==
    Eth(2048, Ipv4Hdr(28, 64, PROTO_ICMP, IpA, IpB) \o <<8, 0, 18, 52, 0, 1, 0, 1>>)
FrameUdp ==
    Eth(2048, Ipv4Hdr(28, 64, 17, IpA, IpB) \o U16(53) \o U16(53) \o <<0, 8, 0, 0>>)
FrameShortEth == Zeros(10)                             \* shorter than an Ethernet header
FrameShortIp == Eth(2048, Zeros(10))                   \* shorter than an IPv4 header
FrameBadTcp ==                                         \* protocol TCP, 10 bytes of TCP header
    Eth(2048, Ipv4Hdr(30, 64, PROTO_TCP, IpA, IpB) \o Zeros(10))
FrameBadIcmp ==                                        \* protocol ICMP, 2 bytes of ICMP header
    Eth(2048, Ipv4Hdr(22, 64, PROTO_ICMP, IpA, IpB) \o Zeros(2))
\* an IPv6 TCP segment from 2001:db8::1 to 2001:db8::2 with flow label 0x12345
FrameIpv6 ==
    Eth(34525,
        <<96, 1, 35, 69, 0, 20, 6, 64>>
        \o <<32, 1, 13, 184>> \o Zeros(11) \o <<1>>
        \o <<32, 1, 13, 184>> \o Zeros(11) \o <<2>>
        \o TcpHdr(1234, 80, 1000, 2000))

Rec(data, sec, usec) == [data |-> data, ts_sec |-> sec, ts_usec |-> usec]

\* The records captures are made of, by name: a capture file is kept in the
\* state as the sequence of the names of its records.
Block ==
    "tcp@100" :> Rec(FrameTcp, 0, 100) @@
    "tcp@150" :> Rec(FrameTcpHop, 0, 150) @@
    "icmp@100" :> Rec(FrameIcmp, 0, 100) @@
    "icmp@1.50" :> Rec(FrameIcmp, 1, 50) @@
    "udp" :> Rec(FrameUdp, 0, 120) @@
    "badtcp" :> Rec(FrameBadTcp, 0, 100) @@
    "shorteth" :> Rec(FrameShortEth, 0, 100) @@
    "shortip" :> Rec(FrameShortIp, 0, 100) @@
    "badicmp" :> Rec(FrameBadIcmp, 0, 100) @@
    "ipv6" :> Rec(FrameIpv6, 0, 100)

\* a last record of which the file holds only the first bytes: the capture
\* was cut in the middle of it
CutRecords == {"cut"}

\* A path that cannot be read as a capture is kept as a one-element sequence
\* that says what is wrong with it: no such file, a directory (it opens, and
\* every read of it fails), a file shorter than the 24 bytes of the file
\* header, a file that starts with another magic number.
Missing == <<"missing">>
Directory == <<"directory">>
ShortHeader == <<"short header">>
BadMagic == <<"bad magic">>
NoCaptures == {Missing, Directory, ShortHeader, BadMagic}

\* records for the correlation: two identities at two times each, and a frame
\* that aborts the run
CorrRecords == {"tcp@100", "tcp@150", "icmp@100", "icmp@1.50", "badtcp"}

\* records for the record source: one of every kind of frame
FrameRecords == {"tcp@100", "icmp@100", "udp", "shorteth", "shortip",
                 "badtcp", "badicmp", "ipv6"}

----------------------------------------------------------------------------
(* LegacyPcapReader of pcap_parser, as main.rs uses it: new (line 120),    *)
(* next (line 150), consume (line 165), refill (line 173).  The buffer is  *)
(* counted in blocks: the records pos+1 .. end of the file are buffered.   *)
(* next returns Eof when the buffer is empty and the last refill read      *)
(* nothing, and Incomplete when the buffered bytes do not make a whole     *)
(* record and the file may have more to give.  For a partial record left   *)
(* in the buffer after a refill that read nothing (the reader is           *)
(* exhausted) it returns UnexpectedEof.                                    *)
(* refill fails with ReadError when the read of the file fails, which it   *)
(* may at any refill.                                                      *)

NoReader == [open |-> FALSE, header_sent |-> FALSE, pos |-> 0, end |-> 0,
             exhausted |-> FALSE]

\* PcapReader::new_from_path, main.rs:118-122: the reader, or the panic of
\* the expect of line 119 (File::open failed) or of line 120
\* (LegacyPcapReader::new failed: its first read, which may fail for any
\* file, or the file header)
OpenFailed(e) == [ok |-> FALSE, message |-> <<"Error opening file:", e>>]
ReaderFailed(e) == [ok |-> FALSE, message |-> <<"LegacyPcapReader:", e>>]
new_from_path(file) ==
    IF file = Missing THEN {OpenFailed("NotFound")}                 \* line 119
    ELSE IF file = Directory THEN {ReaderFailed("ReadError")}       \* line 120
    ELSE IF file = ShortHeader
        THEN {ReaderFailed("Incomplete"), ReaderFailed("ReadError")}
    ELSE IF file = BadMagic
        THEN {ReaderFailed("HeaderNotRecognized"), ReaderFailed("ReadError")}
    ELSE { [ok |-> TRUE,
            reader |-> [open |-> TRUE, header_sent |-> FALSE, pos |-> 0,
                        end |-> Min(Len(file), BufBlocks), exhausted |-> FALSE]],
           ReaderFailed("ReadError") }

\* self.reader.next(), main.rs:150: the answers it may give
reader_next(r, file) ==
    IF ~r.header_sent THEN {[res |-> "LegacyHeader"]}
    ELSE IF r.pos = r.end /\ r.exhausted THEN {[res |-> "Eof"]}
    ELSE IF r.pos < r.end /\ file[r.pos + 1] \notin CutRecords
        THEN {[res |-> "Legacy", b |-> Block[file[r.pos + 1]]]}
    ELSE IF r.pos < r.end /\ r.exhausted
        THEN {[res |-> "Error", e |-> "UnexpectedEof"]}
    ELSE {[res |-> "Incomplete"]}
\* the kinds of answer next may give
reader_answers(r, file) == {got.res : got \in reader_next(r, file)}

\* self.reader.consume(offset), main.rs:165
reader_consume(r) ==
    IF ~r.header_sent THEN [r EXCEPT !.header_sent = TRUE]
    ELSE [r EXCEPT !.pos = r.pos + 1]

\* self.reader.refill(), main.rs:173: reads on; exhausted when nothing was
\* read; an error when the read failed
reader_refill(r, file) ==
    LET end == Min(Len(file), r.pos + BufBlocks) IN
    { [ok |-> TRUE, reader |-> [r EXCEPT !.end = end, !.exhausted = (end = r.end)]],
      [ok |-> FALSE, e |-> "ReadError"] }

----------------------------------------------------------------------------
(* One iteration of the loop of PcapReader::next, main.rs:147-177, for an *)
(* answer of the reader.  ret: "continue" (line 168), "some" (line 167),   *)
(* "none" (line 171), "incomplete" (line 172: refill and go round),        *)
(* "panic" with its message (the unwrap of line 72 or 87, the              *)
(* unreachable!() of line 163, the panic!() of line 175).                  *)

UnwrapNone == <<"called Option::unwrap() on a None value">>

\* a variant with a slip: the frame is parsed before the filter is asked
next_match_parse_first(got, r, f) ==
    IF got.res = "LegacyHeader" THEN
        [ret |-> "continue", reader |-> reader_consume(r), skipped |-> "header"]
    ELSE IF got.res = "Legacy" THEN
        LET parsed == new_from_bytes(got.b.data) IN
        IF parsed.panic THEN [ret |-> "panic", reader |-> r, message |-> UnwrapNone]
        ELSE IF match_filter(got.b.data, f) /\ parsed.id.some THEN
            [ret |-> "some", reader |-> reader_consume(r),
             item |-> [id |-> parsed.id.val,
                       time |-> [sec |-> got.b.ts_sec, usec |-> got.b.ts_usec]]]
        ELSE [ret |-> "continue", reader |-> reader_consume(r),
              skipped |-> "filter"]
    ELSE IF got.res = "NG" THEN
        [ret |-> "panic", reader |-> r,
         message |-> <<"internal error: entered unreachable code">>]
    ELSE IF got.res = "Eof" THEN [ret |-> "none", reader |-> r]
    ELSE IF got.res = "Incomplete" THEN [ret |-> "incomplete", reader |-> r]
    ELSE [ret |-> "panic", reader |-> r,
          message |-> <<"Error while reading:", got.e>>]

\* a variant with a slip: every error but Eof is taken for an incomplete
\* record, and the loop refills and goes round
next_match_retry_all(got, r, f) ==
    IF got.res = "LegacyHeader" THEN
        [ret |-> "continue", reader |-> reader_consume(r), skipped |-> "header"]
    ELSE IF got.res = "Legacy" THEN
        IF match_filter(got.b.data, f) THEN
            LET parsed == new_from_bytes(got.b.data) IN
            IF parsed.panic THEN
                [ret |-> "panic", reader |-> r, message |-> UnwrapNone]
            ELSE IF parsed.id.some THEN
                [ret |-> "some", reader |-> reader_consume(r),
                 item |-> [id |-> parsed.id.val,
                           time |-> [sec |-> got.b.ts_sec, usec |-> got.b.ts_usec]]]
            ELSE [ret |-> "continue", reader |-> reader_consume(r),
                  skipped |-> "no identity"]
        ELSE [ret |-> "continue", reader |-> reader_consume(r),
              skipped |-> "filter"]
    ELSE IF got.res = "NG" THEN
        [ret |-> "panic", reader |-> r,
         message |-> <<"internal error: entered unreachable code">>]
    ELSE IF got.res = "Eof" THEN [ret |-> "none", reader |-> r]
    ELSE [ret |-> "incomplete", reader |-> r]

next_match(got, r, f) ==
    IF got.res = "LegacyHeader" THEN                                \* line 153
        [ret |-> "continue", reader |-> reader_consume(r), skipped |-> "header"]
    ELSE IF got.res = "Legacy" THEN
        IF match_filter(got.b.data, f) THEN                         \* line 155
            LET parsed == new_from_bytes(got.b.data) IN             \* line 156
            IF parsed.panic THEN
                [ret |-> "panic", reader |-> r, message |-> UnwrapNone]
            ELSE IF parsed.id.some THEN                             \* line 167
                [ret |-> "some", reader |-> reader_consume(r),
                 item |-> [id |-> parsed.id.val,
                           time |-> [sec |-> got.b.ts_sec, usec |-> got.b.ts_usec]]]
            ELSE [ret |-> "continue", reader |-> reader_consume(r),
                  skipped |-> "no identity"]                        \* line 168
        ELSE [ret |-> "continue", reader |-> reader_consume(r),
              skipped |-> "filter"]                                 \* line 168
    ELSE IF got.res = "NG" THEN                                     \* line 163
        [ret |-> "panic", reader |-> r,
         message |-> <<"internal error: entered unreachable code">>]
    ELSE IF got.res = "Eof" THEN [ret |-> "none", reader |-> r]     \* line 171
    ELSE IF got.res = "Incomplete" THEN                             \* line 172
        [ret |-> "incomplete", reader |-> r]
    ELSE [ret |-> "panic", reader |-> r,                            \* line 175
          message |-> <<"Error while reading:", got.e>>]

\* the outcomes of one iteration, over the answers the reader may give
next_iteration(r, file, f) == {next_match(got, r, f) : got \in reader_next(r, file)}

----------------------------------------------------------------------------
(* The inputs of a run *)

\* byte 23 of an Ethernet/IPv4 frame is the IPv4 protocol
NoFilter == <<>>
TcpOnlyFilter == << <<23, PROTO_TCP>> >>
Filters == { NoFilter, TcpOnlyFilter }

SeqsUpTo(S, n) == UNION { [1..k -> S] : k \in 0..n }

----------------------------------------------------------------------------
(* The state at the start of main's first loop, main.rs:192-195, or, when  *)
(* the outbound capture could not be opened, after the panic of line 193.  *)
(* The accumulators of lines 201-206 hold their initial values throughout  *)
(* the first loop.                                                         *)

\* a variant with a slip: line 199 moved before the first loop, so that both
\* captures are opened at the start
InitProgram_both_opened ==
    /\ \E out \in new_from_path(outFile), in \in new_from_path(inFile) :
          IF out.ok /\ in.ok
          THEN pc = "out_next" /\ out_reader = out.reader /\ in_reader = in.reader
                /\ stderr = <<>>
          ELSE pc = "panic" /\ out_reader = NoReader /\ in_reader = NoReader
                /\ stderr = (IF out.ok THEN in.message ELSE out.message)
    /\ item = None
    /\ out_interface_table = <<>>
    /\ latency_sum = 0
    /\ latency_min = I64_MAX
    /\ latency_max = 0
    /\ latency_hit_count = 0
    /\ miss_count = 0
    /\ in_interface_packet_count = 0
    /\ stdout = <<>>
    /\ log = <<>>
    /\ fn_in = <<>>
    /\ fn_out = <<>>

InitProgram ==
    /\ \E got \in new_from_path(outFile) :                          \* line 192
          IF got.ok
          THEN pc = "out_next" /\ out_reader = got.reader /\ stderr = <<>>
          ELSE pc = "panic" /\ out_reader = NoReader /\ stderr = got.message
    /\ in_reader = NoReader
    /\ item = None
    /\ out_interface_table = <<>>                                   \* line 194
    /\ latency_sum = 0                                              \* line 201
    /\ latency_min = I64_MAX                                        \* line 202
    /\ latency_max = 0                               \* line 203
    /\ latency_hit_count = 0                                        \* line 204
    /\ miss_count = 0                                               \* line 205
    /\ in_interface_packet_count = 0                                \* line 206
    /\ stdout = <<>>
    /\ log = <<>>
    /\ fn_in = <<>>
    /\ fn_out = <<>>

Init ==
    /\ outFile \in SeqsUpTo(CorrRecords, MaxOut) \cup NoCaptures
    /\ inFile \in SeqsUpTo(CorrRecords, MaxIn) \cup NoCaptures
    /\ filter \in Filters
    /\ disable_printing \in BOOLEAN
    /\ InitProgram

InitFrames ==
    /\ outFile \in SeqsUpTo(FrameRecords, MaxOutFrames) \cup NoCaptures
    /\ inFile \in SeqsUpTo(FrameRecords, MaxInFrames) \cup NoCaptures
    /\ filter \in Filters
    /\ disable_printing \in BOOLEAN
    /\ InitProgram

----------------------------------------------------------------------------
(* HashMap<PacketId, PacketTime> as a function on its keys *)

Keys(t) == DOMAIN t
\* variants with a slip: insert keeps an existing entry, remove only reads
table_insert_if_absent(t, k, v) ==
    [x \in Keys(t) \cup {k} |-> IF x \in Keys(t) THEN t[x] ELSE v]
table_get(t, k) == t
\* another: remove empties the table
table_clear(t, k) == <<>>
table_insert(t, k, v) == [x \in Keys(t) \cup {k} |-> IF x = k THEN v ELSE t[x]]
table_remove(t, k) == [x \in Keys(t) \ {k} |-> t[x]]

----------------------------------------------------------------------------
(* PcapReader::next, one loop iteration per step, for the reader main is   *)
(* iterating: the outbound one at "out_next", the inbound one at "in_next".*)
(* The refill of line 173 is a step of its own, at "out_refill" and        *)
(* "in_refill".                                                            *)

InNextCall == pc \in {"out_next", "in_next"}
InRefill == pc \in {"out_refill", "in_refill"}
InOutbound == pc \in {"out_next", "out_refill"}
CurFile == IF InOutbound THEN outFile ELSE inFile
CurReader == IF InOutbound THEN out_reader ELSE in_reader
Iterations == next_iteration(CurReader, CurFile, filter)

SetReader(r) ==
    IF InOutbound THEN out_reader' = r /\ UNCHANGED in_reader
    ELSE in_reader' = r /\ UNCHANGED out_reader

\* line 168: nothing to return yet, the loop goes round
NextContinue ==
    /\ InNextCall
    /\ \E it \in Iterations : it.ret = "continue" /\ SetReader(it.reader)
    /\ UNCHANGED <<inputs, pc, item, out_interface_table, stats, stdout, stderr,
                   log, fn_in, fn_out>>

\* line 172: the buffer holds no whole record
NextIncomplete ==
    /\ InNextCall
    /\ \E it \in Iterations : it.ret = "incomplete"
    /\ pc' = IF pc = "out_next" THEN "out_refill" ELSE "in_refill"
    /\ UNCHANGED <<inputs, out_reader, in_reader, item, out_interface_table, stats,
                   stdout, stderr, log, fn_in, fn_out>>

\* line 173: self.reader.refill().unwrap(), and the loop goes round
Refill ==
    /\ InRefill
    /\ \E got \in reader_refill(CurReader, CurFile) : got.ok /\ SetReader(got.reader)
    /\ pc' = IF pc = "out_refill" THEN "out_next" ELSE "in_next"
    /\ UNCHANGED <<inputs, item, out_interface_table, stats, stdout, stderr,
                   log, fn_in, fn_out>>

\* line 173: the unwrap() of a refill that failed
RefillPanic ==
    /\ InRefill
    /\ \E got \in reader_refill(CurReader, CurFile) :
          /\ ~got.ok
          /\ stderr' = <<"called Result::unwrap() on an Err value:", got.e>>
    /\ pc' = "panic"
    /\ UNCHANGED <<inputs, out_reader, in_reader, item, out_interface_table, stats,
                   stdout, log, fn_in, fn_out>>

\* line 167: the iterator returns Some((tuple_id, time)) to the for loop
NextSome ==
    /\ InNextCall
    /\ \E it \in Iterations :
          it.ret = "some" /\ SetReader(it.reader) /\ item' = Some(it.item)
    /\ pc' = IF pc = "out_next" THEN "out_body" ELSE "in_body"
    /\ UNCHANGED <<inputs, out_interface_table, stats, stdout, stderr, log,
                   fn_in, fn_out>>

\* lines 72, 87: unwrap() on a transport header that did not parse; line
\* 175: the reader answered an error that is neither Eof nor Incomplete
NextPanic ==
    /\ InNextCall
    /\ \E it \in Iterations : it.ret = "panic" /\ stderr' = it.message
    /\ pc' = "panic"
    /\ UNCHANGED <<inputs, out_reader, in_reader, item, out_interface_table, stats,
                   stdout, log, fn_in, fn_out>>

\* line 171 in the first loop: the outbound stream is exhausted; main opens
\* the inbound capture (line 199) and enters the second loop
OutExhausted ==
    /\ pc = "out_next"
    /\ \E it \in Iterations : it.ret = "none"
    /\ \E got \in new_from_path(inFile) : got.ok /\ in_reader' = got.reader
    /\ pc' = "in_next"
    /\ item' = None
    /\ UNCHANGED <<inputs, out_reader, out_interface_table, stats, stdout, stderr,
                   log, fn_in, fn_out>>

\* line 171 in the first loop, then line 199: the inbound capture cannot be
\* opened (the expect of line 119 or 120)
InOpenPanic ==
    /\ pc = "out_next"
    /\ \E it \in Iterations : it.ret = "none"
    /\ \E got \in new_from_path(inFile) : ~got.ok /\ stderr' = got.message
    /\ pc' = "panic"
    /\ UNCHANGED <<inputs, out_reader, in_reader, item, out_interface_table, stats,
                   stdout, log, fn_in, fn_out>>

\* line 171 in the second loop: the inbound stream is exhausted
InExhausted ==
    /\ pc = "in_next"
    /\ \E it \in Iterations : it.ret = "none"
    /\ pc' = "summary"
    /\ item' = None
    /\ UNCHANGED <<inputs, out_reader, in_reader, out_interface_table, stats,
                   stdout, stderr, log, fn_in, fn_out>>

----------------------------------------------------------------------------
(* The body of the first loop, main.rs:196 *)

OutInsert ==
    /\ pc = "out_body"
    /\ out_interface_table' = table_insert(out_interface_table, item.val.id, item.val.time)
    /\ pc' = "out_next"
    /\ UNCHANGED <<inputs, out_reader, in_reader, item, stats, stdout, stderr,
                   log, fn_in, fn_out>>

----------------------------------------------------------------------------
(* The body of the second loop, main.rs:208-227 *)

\* a variant with a slip: the comparison of line 216 the wrong way round
min_update_flipped(cur, latency) == IF abs(latency) > cur THEN latency ELSE cur
\* lines 216-218
min_update(cur, latency) == IF abs(latency) < cur THEN latency ELSE cur
\* lines 219-221
max_update(cur, latency) == IF abs(latency) > cur THEN latency ELSE cur
\* line 223, and a variant with a slip: the miss is not counted
count_miss_forgotten(n) == n
\* another: the miss is counted inside the block that prints it
count_miss_when_printing(n) == IF disable_printing THEN n ELSE n + 1
count_miss(n) == n + 1

println(line) == IF disable_printing THEN stdout ELSE Append(stdout, line)

InHit ==
    /\ pc = "in_body"
    /\ item.val.id \in Keys(out_interface_table)                    \* line 209
    /\ LET latency == diff(out_interface_table[item.val.id], item.val.time) IN
        /\ stdout' = println([latency |-> latency])                 \* line 212
        /\ latency_sum' = latency_sum + abs(latency)                \* line 214
        /\ latency_hit_count' = latency_hit_count + 1               \* line 215
        /\ latency_min' = min_update(latency_min, latency)
        /\ latency_max' = max_update(latency_max, latency)
        /\ log' = Append(log, [id |-> item.val.id, time |-> item.val.time,
                               hit |-> TRUE, latency |-> latency])
    /\ in_interface_packet_count' = in_interface_packet_count + 1   \* line 208
    /\ out_interface_table' = table_remove(out_interface_table, item.val.id)
    /\ pc' = "in_next"
    /\ UNCHANGED <<inputs, out_reader, in_reader, item, miss_count, stderr,
                   fn_in, fn_out>>

\* a variant with a slip: hit_count is incremented before the lookup is
\* looked at, so a miss counts as a hit too
InMiss_counts_hit ==
    /\ pc = "in_body"
    /\ item.val.id \notin Keys(out_interface_table)
    /\ in_interface_packet_count' = in_interface_packet_count + 1
    /\ latency_hit_count' = latency_hit_count + 1
    /\ miss_count' = count_miss(miss_count)
    /\ stdout' = println([miss |-> TRUE])
    /\ log' = Append(log, [id |-> item.val.id, time |-> item.val.time,
                           hit |-> FALSE, latency |-> 0])
    /\ pc' = "in_next"
    /\ UNCHANGED <<inputs, out_reader, in_reader, item, out_interface_table,
                   latency_sum, latency_min, latency_max, stderr, fn_in, fn_out>>

InMiss ==
    /\ pc = "in_body"
    /\ item.val.id \notin Keys(out_interface_table)                 \* line 222
    /\ in_interface_packet_count' = in_interface_packet_count + 1   \* line 208
    /\ miss_count' = count_miss(miss_count)
    /\ stdout' = println([miss |-> TRUE])                           \* line 225
    /\ log' = Append(log, [id |-> item.val.id, time |-> item.val.time,
                           hit |-> FALSE, latency |-> 0])
    /\ pc' = "in_next"
    /\ UNCHANGED <<inputs, out_reader, in_reader, item, out_interface_table,
                   latency_sum, latency_min, latency_max, latency_hit_count,
                   stderr, fn_in, fn_out>>

----------------------------------------------------------------------------
(* The summary, main.rs:229-236.  The arguments of println! are evaluated  *)
(* in order, and the first is an integer division: with no hit it panics.  *)

\* i64 division, main.rs:231: it panics on a zero divisor and truncates
\* toward zero (the dividend, a sum of absolute values, is never negative)
unchecked_div(a, b) ==                 \* variant: a zero divisor gives 0
    IF b = 0 THEN [panic |-> FALSE, val |-> 0] ELSE [panic |-> FALSE, val |-> a \div b]
checked_div(a, b) ==
    IF b = 0 THEN [panic |-> TRUE] ELSE [panic |-> FALSE, val |-> a \div b]

average == checked_div(latency_sum, latency_hit_count)

summary_line ==
    [average |-> average.val,                                       \* line 231
     jitter |-> latency_max - latency_min,                          \* line 232
     packets |-> in_interface_packet_count,                         \* line 233
     misses |-> miss_count,                                         \* line 234
     percent |-> [num |-> miss_count * 100,                         \* line 235
                  den |-> in_interface_packet_count]]

SummaryPanic ==
    /\ pc = "summary"
    /\ average.panic
    /\ pc' = "panic"
    /\ stderr' = <<"attempt to divide by zero">>
    /\ UNCHANGED <<inputs, out_reader, in_reader, item, out_interface_table, stats,
                   stdout, log, fn_in, fn_out>>

Summary ==
    /\ pc = "summary"
    /\ ~average.panic
    /\ stdout' = Append(stdout, summary_line)
    /\ pc' = "done"
    /\ UNCHANGED <<inputs, out_reader, in_reader, item, out_interface_table, stats,
                   stderr, log, fn_in, fn_out>>

Next ==
    \/ NextContinue
    \/ NextIncomplete
    \/ Refill
    \/ RefillPanic
    \/ NextSome
    \/ NextPanic
    \/ OutExhausted
    \/ InOpenPanic
    \/ OutInsert
    \/ InExhausted
    \/ InHit
    \/ InMiss
    \/ SummaryPanic
    \/ Summary

Spec == Init /\ [][Next]_vars

----------------------------------------------------------------------------
(* match_filter and PacketTime::diff applied on their own, to arguments    *)
(* drawn from bounded sets; the program itself is not running.             *)

InitIdle ==
    /\ outFile = <<>> /\ inFile = <<>> /\ filter = <<>>
    /\ disable_printing = FALSE
    /\ pc = "fn"
    /\ out_reader = NoReader /\ in_reader = NoReader
    /\ item = None
    /\ out_interface_table = <<>>
    /\ latency_sum = 0 /\ latency_min = I64_MAX /\ latency_max = 0
    /\ latency_hit_count = 0 /\ miss_count = 0 /\ in_interface_packet_count = 0
    /\ stdout = <<>> /\ stderr = <<>> /\ log = <<>>
    /\ fn_out = None

ByteValues == {0, 1}
Constraints == (0..MaxFrameLen) \X ByteValues

InitFilter ==
    /\ InitIdle
    /\ fn_in \in [bytes : SeqsUpTo(ByteValues, MaxFrameLen),
                  filter : SeqsUpTo(Constraints, MaxFilterLen)]

\* PcapReader::match_filter(_b.data, filter), main.rs:155
ApplyFilter ==
    /\ fn_out = None
    /\ fn_out' = Some(match_filter(fn_in.bytes, fn_in.filter))
    /\ UNCHANGED <<program, fn_in>>

SpecFilter == InitFilter /\ [][ApplyFilter]_vars

\* u32 values: small ones, the ones of the specification's examples, and the
\* ends of the range
U32Values == { <<0, 0>>, <<0, 10>>, <<0, 100>>, <<0, 150>>, <<0, 500000>>,
               <<0, 999999>>, <<1, 0>>, U32_MAX }
PacketTimes == [sec : U32Values, usec : U32Values]

InitDiff ==
    /\ InitIdle
    /\ fn_in \in [out_interface_time : PacketTimes, packet_time : PacketTimes]

\* let latency = PacketTime::diff(out_interface_time, packet_time), main.rs:210
ApplyDiff ==
    /\ fn_out = None
    /\ fn_out' = Some(diff64(fn_in.out_interface_time, fn_in.packet_time))
    /\ UNCHANGED <<program, fn_in>>

SpecDiff == InitDiff /\ [][ApplyDiff]_vars

SpecFrames == InitFrames /\ [][Next]_vars

\* Captures that may have been cut in the middle of their last record.  The
\* program is one thread that always takes its next step: weak fairness of
\* Next.
WithCut(files) == files \cup {Append(file, "cut") : file \in files}
WholeRecords == {"tcp@100", "badtcp"}
InitCut ==
    /\ outFile \in WithCut(SeqsUpTo(WholeRecords, MaxOutFrames))
    /\ inFile \in WithCut(SeqsUpTo(WholeRecords, MaxOutFrames))
    /\ filter = NoFilter
    /\ disable_printing = FALSE
    /\ InitProgram

SpecCut == InitCut /\ [][Next]_vars /\ WF_vars(Next)

----------------------------------------------------------------------------
(* What the captures say, read off the files: the reference the program's  *)
(* state is compared with.                                                 *)

TimeOf(name) == [sec |-> Block[name].ts_sec, usec |-> Block[name].ts_usec]
\* what the parser and the filter make of each record, tabulated once
ParsedTable == [name \in DOMAIN Block |-> new_from_bytes(Block[name].data)]
AcceptedTable ==
    [f \in Filters |-> {name \in DOMAIN Block : match_filter(Block[name].data, f)}]
Parsed(name) == ParsedTable[name]
Accepted(name) == name \in AcceptedTable[filter]
\* the record is one the record source returns to the loop
Yields(name) == Accepted(name) /\ ~Parsed(name).panic /\ Parsed(name).id.some
IdOf(name) == Parsed(name).id.val

OutYielding == {n \in 1..Len(outFile) : Yields(outFile[n])}
OutIds == {IdOf(outFile[n]) : n \in OutYielding}
\* the time of the last outbound record with identity K
LastOut(K) ==
    LET ns == {n \in OutYielding : IdOf(outFile[n]) = K}
        last == CHOOSE n \in ns : \A m \in ns : m <= n
    IN TimeOf(outFile[last])

\* the outbound stream has reported exhaustion
InboundPhase == in_reader.open
\* the inbound records consumed so far that yield an identity
InYieldedSoFar == {n \in 1..in_reader.pos : Yields(inFile[n])}

CurBodyFile == IF pc = "out_body" THEN outFile ELSE inFile
CurBodyReader == IF pc = "out_body" THEN out_reader ELSE in_reader

HitEntries == {i \in DOMAIN log : log[i].hit}
MissEntries == {i \in DOMAIN log : ~log[i].hit}
Latencies == {log[i].latency : i \in HitEntries}
MaxOf(S) == CHOOSE x \in S : \A y \in S : y <= x
MinOf(S) == CHOOSE x \in S : \A y \in S : x <= y
Printed == stdout[Len(stdout)]      \* the summary line, once pc = "done"

----------------------------------------------------------------------------
\* C1: count conservation.  In every state hit_count + miss_count equals
\* total_inbound_count; the total is the number of inbound records consumed
\* so far that yield an identity (less the one the loop body has not run for
\* yet), and each of them counted as exactly one hit or exactly one miss.
C1_CountConservation ==
    /\ latency_hit_count + miss_count = in_interface_packet_count
    /\ in_interface_packet_count
         = Cardinality(InYieldedSoFar) - (IF pc = "in_body" THEN 1 ELSE 0)
    /\ Len(log) = in_interface_packet_count
    /\ latency_hit_count = Cardinality(HitEntries)
    /\ miss_count = Cardinality(MissEntries)

C1_Witness ==
    pc = "done" /\ latency_hit_count >= 1 /\ miss_count >= 1

\* C2: at-most-once correlation.  An inbound record with identity K is a hit
\* exactly when K was produced by the outbound stream and no earlier inbound
\* record had identity K; so at most one inbound record per identity hits,
\* however many outbound records carried it.
C2_AtMostOnce ==
    \A i \in DOMAIN log :
        log[i].hit <=> /\ log[i].id \in OutIds
                       /\ \A j \in 1..(i - 1) : log[j].id /= log[i].id

\* one outbound record with K, two inbound records with K: one hit, one miss
C2_Witness ==
    /\ pc = "done"
    /\ Cardinality(OutYielding) = 1
    /\ Len(log) = 2 /\ log[1].id = log[2].id /\ log[1].id \in OutIds
    /\ latency_hit_count = 1 /\ miss_count = 1

\* C3: identical captures.
SameCapture == outFile = inFile
DistinctOutIds ==
    \A m, n \in OutYielding : m /= n => IdOf(outFile[m]) /= IdOf(outFile[n])
AllHitsAtZero ==
    /\ \A i \in DOMAIN log : log[i].hit /\ log[i].latency = 0
    /\ miss_count = 0

\* C3 as claimed: with the same capture as outbound and inbound input, every
\* inbound record with an identity is a hit with latency 0 and no miss is counted.
C3_Original == SameCapture => AllHitsAtZero

\* C3 as amended: the same, for a capture no two of whose records yield the
\* same identity.
C3_IdenticalCaptures == SameCapture /\ DistinctOutIds => AllHitsAtZero

C3_Witness ==
    /\ SameCapture /\ DistinctOutIds
    /\ pc = "done" /\ latency_hit_count = 2

\* C4: jitter.  The jitter of the summary line is the largest recorded latency
\* minus the smallest, over all hits.
C4_Jitter ==
    pc = "done" => Printed.jitter = MaxOf(Latencies) - MinOf(Latencies)

\* C5: division-by-zero guard.  A run whose inbound stream is exhausted with
\* no hit ends in a panic that reports the division by zero, and prints no
\* summary line; a summary line is printed only with at least one hit.
InboundExhausted ==
    InboundPhase /\ reader_answers(in_reader, inFile) = {"Eof"}
C5_DivisionGuard ==
    /\ pc = "done" => latency_hit_count > 0
    /\ InboundExhausted /\ latency_hit_count = 0 /\ pc /= "in_next" /\ pc /= "summary"
         => /\ pc = "panic"
            /\ stderr = <<"attempt to divide by zero">>
            /\ \A i \in DOMAIN stdout : "average" \notin DOMAIN stdout[i]

C5_Witness ==
    /\ InboundExhausted /\ latency_hit_count = 0 /\ miss_count >= 1
    /\ pc = "panic"

\* C6: the end-to-end scenario.  Outbound: one TCP record K at {0,100}.
\* Inbound: K at {0,150}, then an ICMP record the outbound capture lacks.
\* The run gives one hit with latency -50 and one miss, and prints average
\* 50, jitter 0, 2 packets, 1 miss, 50 percent.  And after exactly one hit
\* latency_max - latency_min is 0, whatever the sign of the latency.
Scenario ==
    /\ outFile = <<"tcp@100">>
    /\ inFile = <<"tcp@150", "icmp@100">>
    /\ filter = NoFilter
C6_EndToEnd ==
    /\ Scenario /\ pc = "done" =>
        /\ Len(log) = 2
        /\ log[1].hit /\ log[1].latency = -50
        /\ ~log[2].hit
        /\ latency_hit_count = 1 /\ miss_count = 1
        /\ Printed.average = 50
        /\ Printed.jitter = 0
        /\ Printed.packets = 2
        /\ Printed.misses = 1
        /\ Printed.percent.num = 50 * Printed.percent.den
    /\ latency_hit_count = 1 => latency_max - latency_min = 0

C6_Witness == Scenario /\ pc = "done"

\* C9: last-write-wins construction.  When the outbound stream is exhausted
\* the table has exactly one entry per identity the outbound stream yielded,
\* holding the time of the last outbound record with that identity; and a hit
\* on K has the latency computed from that time.
C9_LastWriteWins ==
    /\ InboundPhase /\ log = <<>> =>
          Keys(out_interface_table) = OutIds
    /\ InboundPhase =>
          \A K \in Keys(out_interface_table) : out_interface_table[K] = LastOut(K)
    /\ \A i \in HitEntries :
          log[i].latency =
              (LastOut(log[i].id).sec * USEC_PER_SEC + LastOut(log[i].id).usec)
              - (log[i].time.sec * USEC_PER_SEC + log[i].time.usec)

\* two outbound records with the same identity and different times, then a hit
C9_Witness ==
    /\ Cardinality(OutYielding) = 2 /\ Cardinality(OutIds) = 1
    /\ TimeOf(outFile[1]) /= TimeOf(outFile[2])
    /\ latency_hit_count = 1

\* C7: the byte filter.  match_filter accepts a frame exactly when every
\* constraint (offset, value) has offset < len(frame) and frame[offset] =
\* value: the empty filter accepts every frame, and a frame no longer than
\* the largest constrained offset is rejected, whatever its bytes and the
\* order of the constraints.
AllConstraintsHold(bytes, f) ==
    \A i \in DOMAIN f : f[i][1] < Len(bytes) /\ bytes[f[i][1] + 1] = f[i][2]
C7_FilterResult ==
    fn_out.some =>
        LET bytes == fn_in.bytes
            f == fn_in.filter
        IN /\ fn_out.val = AllConstraintsHold(bytes, f)
           /\ f = <<>> => fn_out.val
           /\ (\E i \in DOMAIN f : Len(bytes) <= f[i][1]) => ~fn_out.val

\* a frame whose first constraint holds and whose second lies beyond its end
C7_Witness ==
    /\ fn_out.some /\ ~fn_out.val
    /\ Len(fn_in.filter) = 2
    /\ AllConstraintsHold(fn_in.bytes, SubSeq(fn_in.filter, 1, 1))
    /\ Len(fn_in.bytes) <= fn_in.filter[2][1]

\* C10: latency formula and sign.  The latency of a hit is
\* (out.sec * 10^6 + out.usec) - (in.sec * 10^6 + in.usec), the outbound time
\* being the minuend; outbound {10, 500000} and inbound {10, 0} give 500000;
\* and for all u32 operands no step of the computation leaves the i64 range.
WValue(t) == WAdd(WMulMillion(AsI64(t.sec)), AsI64(t.usec))
IsSmall(u) == u[1] = 0 /\ u[2] < 1000
Small(t) == [sec |-> t.sec[2], usec |-> t.usec[2]]
C10_LatencyFormula ==
    fn_out.some =>
        LET out == fn_in.out_interface_time
            in == fn_in.packet_time
        IN /\ ~fn_out.val.overflow
           /\ fn_out.val.val = WSub(WValue(out), WValue(in))
           /\ InI64(fn_out.val.val)
           /\ out = [sec |-> <<0, 10>>, usec |-> <<0, 500000>>]
                /\ in = [sec |-> <<0, 10>>, usec |-> <<0, 0>>]
                => fn_out.val.val = <<0, 0, 500000>>
           /\ out = [sec |-> <<0, 0>>, usec |-> <<0, 0>>]
                /\ in = [sec |-> U32_MAX, usec |-> U32_MAX]
                => fn_out.val.val = <<-4295, 28410, 32705>>      \* -4294971589967295
           \* where the operands fit TLC's integers, diff computes the same
           /\ IsSmall(out.sec) /\ IsSmall(out.usec) /\ IsSmall(in.sec) /\ IsSmall(in.usec)
                => fn_out.val.val = Norm(<<0, 0, diff(Small(out), Small(in))>>)

\* the example of the specification
C10_Witness ==
    /\ fn_out.some
    /\ fn_in.out_interface_time = [sec |-> <<0, 10>>, usec |-> <<0, 500000>>]
    /\ fn_in.packet_time = [sec |-> <<0, 10>>, usec |-> <<0, 0>>]
    /\ fn_out.val.val = <<0, 0, 500000>>

\* C8: skipped frames leave no trace.  A record that fails the byte filter,
\* is not an Ethernet frame carrying a whole IPv4 header, or carries a
\* protocol other than TCP and ICMP is never returned by the record source
\* (nor is the file header); so the keys of the table all come from other
\* outbound records, and the inbound count never exceeds the number of other
\* inbound records consumed.
IsEthernetIpv4(bytes) ==
    /\ Len(bytes) >= ETH_HDR + IPV4_HDR
    /\ BE16(bytes, 12) = 2048                   \* ethertype IPv4
    /\ Byte(bytes, ETH_HDR) \div 16 = 4         \* IP version 4
MustBeSkipped(name) ==
    LET bytes == Block[name].data IN
    \/ ~AllConstraintsHold(bytes, filter)
    \/ ~IsEthernetIpv4(bytes)
    \/ Byte(bytes, ETH_HDR + 9) \notin {PROTO_TCP, PROTO_ICMP}
\* the record the iterator has just returned
Returned == CurBodyFile[CurBodyReader.pos]
C8_SkippedLeaveNoTrace ==
    /\ pc \in {"out_body", "in_body"} =>
          CurBodyReader.header_sent /\ CurBodyReader.pos >= 1 /\ ~MustBeSkipped(Returned)
    /\ Keys(out_interface_table)
          \subseteq {IdOf(outFile[n]) :
                        n \in {m \in OutYielding : ~MustBeSkipped(outFile[m])}}
    /\ in_interface_packet_count
          <= Cardinality({n \in 1..in_reader.pos : ~MustBeSkipped(inFile[n])})

----------------------------------------------------------------------------
\* C11: two-phase ordering.  While main is in its first loop the inbound
\* capture is not opened and nothing of it has been read; the inbound reader
\* exists only once the outbound stream has reported exhaustion.  A step that
\* inserts into the table (adds a key or changes a time) is a step of the
\* first loop, taken before any remove; a step that removes a key is a step
\* of the second loop, taken when the outbound stream is exhausted, after
\* which no insert follows.
OutboundPhase == pc \in {"out_next", "out_refill", "out_body"}
OutboundExhausted == reader_answers(out_reader, outFile) = {"Eof"}
Inserts ==
    \E k \in Keys(out_interface_table') :
        k \notin Keys(out_interface_table)
            \/ out_interface_table'[k] /= out_interface_table[k]
Removes ==
    \E k \in Keys(out_interface_table) : k \notin Keys(out_interface_table')
C11_PhaseState ==
    /\ OutboundPhase =>
          /\ ~in_reader.open /\ ~in_reader.header_sent /\ in_reader.pos = 0
          /\ log = <<>> /\ in_interface_packet_count = 0
    /\ in_reader.open => OutboundExhausted
C11_PhaseStep ==
    /\ Inserts => /\ OutboundPhase /\ OutboundPhase'
                  /\ ~Removes
                  /\ latency_hit_count = 0 /\ log = <<>>
    /\ Removes => /\ in_reader.open /\ OutboundExhausted
                  /\ ~Inserts
    /\ in_reader.open => ~Inserts /\ in_reader'.open /\ out_reader' = out_reader
C11_TwoPhaseOrdering == []C11_PhaseState /\ [][C11_PhaseStep]_vars

\* two inserts, then a remove, then a miss
C11_Witness ==
    /\ pc = "in_next"
    /\ Cardinality(OutYielding) = 2
    /\ Len(log) = 2 /\ log[1].hit /\ ~log[2].hit
    /\ Cardinality(Keys(out_interface_table)) = 1

----------------------------------------------------------------------------
\* C12: extraction outcomes.  When the loop of the record source is at a
\* record whose frame the filter accepts, its step is decided by the frame:
\* a frame that is not Ethernet/IPv4 (non-IPv4, or cut short within the
\* Ethernet or IPv4 header), or whose IPv4 protocol is neither TCP nor ICMP, is
\* consumed and the loop goes on with the next record, with no abort; a frame
\* with protocol TCP or ICMP whose transport header is cut short aborts the
\* run, which never prints a summary; any other frame is consumed and
\* returned with an identity of the variant of its protocol.
Protocol(bytes) == Byte(bytes, ETH_HDR + 9)
\* the bytes the IPv4 header leaves to the transport protocol
TransportLen(bytes) ==
    LET header == (Byte(bytes, ETH_HDR) % 16) * 4
        total == BE16(bytes, ETH_HDR + 2)
    IN SatSub(Min(Len(bytes) - ETH_HDR, total), header)
ExpectedOutcome(bytes) ==
    IF ~IsEthernetIpv4(bytes) THEN "skip"
    ELSE IF Protocol(bytes) = PROTO_TCP
        THEN IF TransportLen(bytes) < TCP_HDR THEN "abort" ELSE "Tcp"
    ELSE IF Protocol(bytes) = PROTO_ICMP
        THEN IF TransportLen(bytes) < ICMP_HDR THEN "abort" ELSE "Icmp"
    ELSE "skip"
ExpectedTable == [name \in DOMAIN Block |-> ExpectedOutcome(Block[name].data)]

AtRecord == InNextCall /\ reader_answers(CurReader, CurFile) = {"Legacy"}
CurName == CurFile[CurReader.pos + 1]
ReaderAfter == IF pc = "out_next" THEN out_reader' ELSE in_reader'
Consumed == ReaderAfter = [CurReader EXCEPT !.pos = CurReader.pos + 1]
Aborted == pc = "panic" /\ stderr = UnwrapNone
NoSummary == \A i \in DOMAIN stdout : "average" \notin DOMAIN stdout[i]

C12_Step ==
    /\ AtRecord /\ Accepted(CurName) =>
        LET expected == ExpectedTable[CurName] IN
        /\ expected = "skip" =>
              /\ Consumed /\ pc' = pc /\ stderr' = stderr
              /\ UNCHANGED <<item, out_interface_table, stats, stdout, log>>
        /\ expected = "abort" =>
              /\ Aborted' /\ ReaderAfter = CurReader
              /\ UNCHANGED <<item, out_interface_table, stats, stdout, log>>
        /\ expected \in {"Tcp", "Icmp"} =>
              /\ Consumed /\ pc' = (IF pc = "out_next" THEN "out_body" ELSE "in_body")
              /\ item'.some /\ item'.val.id.kind = expected
              /\ item'.val.time = TimeOf(CurName)
    /\ pc /= "panic"                    \* an aborted run takes no further step
C12_ExtractionOutcomes == [](Aborted => NoSummary) /\ [][C12_Step]_vars

----------------------------------------------------------------------------
\* C13: record source termination.  For any finite capture file, cut in the
\* middle of its last record or not, every pull on the record source ends:
\* the loop of next leaves "out_next"/"out_refill" (resp. "in_next"/
\* "in_refill") with a record (the loop body runs), with exhaustion (the
\* next phase starts) or with an abort; and the run ends, with the summary
\* or with an abort.  For a capture cut in the middle of its last record the
\* loop refills once, to no avail, and the next answer of the reader aborts
\* the run.
InOutboundPull == pc \in {"out_next", "out_refill"}
InInboundPull == pc \in {"in_next", "in_refill"}
RunEnded == pc \in {"done", "panic"}
----------------------------------------------------------------------------
\* C14: leftover entries.  When the inbound stream is exhausted, K is a key
\* of the table exactly when the outbound stream yielded K and no inbound
\* record did, and the table has as many entries as the outbound stream
\* yielded distinct identities, less hit_count.  (All through the second loop
\* the keys are the outbound identities no inbound record has carried so far.)
InYielding == {n \in 1..Len(inFile) : Yields(inFile[n])}
InIds == {IdOf(inFile[n]) : n \in InYielding}
SeenInbound == {log[i].id : i \in DOMAIN log}
C14_LeftoverEntries ==
    /\ InboundExhausted =>
          /\ \A K \in OutIds \cup InIds \cup Keys(out_interface_table) :
                K \in Keys(out_interface_table) <=> K \in OutIds /\ K \notin InIds
          /\ Cardinality(Keys(out_interface_table))
                = Cardinality(OutIds) - latency_hit_count
    /\ InboundPhase =>
          /\ Keys(out_interface_table) = OutIds \ SeenInbound
          /\ Cardinality(Keys(out_interface_table))
                = Cardinality(OutIds) - latency_hit_count

\* two outbound identities, one of them seen inbound: one entry is left
C14_Witness ==
    /\ pc = "done"
    /\ Cardinality(OutIds) = 2
    /\ latency_hit_count = 1
    /\ Cardinality(Keys(out_interface_table)) = 1

----------------------------------------------------------------------------
\* C15: the printing flag does not influence the aggregation.  Two runs on
\* the same captures and filter that differ only in disable_printing agree,
\* step for step, on the table and on latency_sum, latency_min, latency_max,
\* hit_count, miss_count and total_inbound_count.  Stated of one run: in every
\* state the table and the six results are what a correlation that knows
\* nothing of the flag computes from the captures, the filter and the number
\* of records each loop has processed; a run with printing and a run without
\* it are then equal to the same thing.
RECURSIVE TableAfter(_)
\* the table when the first loop has processed the first n outbound records
TableAfter(n) ==
    IF n = 0 THEN <<>>
    ELSE LET t == TableAfter(n - 1)
             name == outFile[n]
         IN IF Yields(name)
            THEN [K \in Keys(t) \cup {IdOf(name)} |->
                     IF K = IdOf(name) THEN TimeOf(name) ELSE t[K]]
            ELSE t

Micros(t) == t.sec * USEC_PER_SEC + t.usec
RECURSIVE AggregationAfter(_, _)
\* the table and the results when the second loop has processed the first n
\* inbound records, the first loop having processed m outbound records
AggregationAfter(m, n) ==
    IF n = 0
    THEN [table |-> TableAfter(m), sum |-> 0, min |-> I64_MAX, max |-> 0,
          hit |-> 0, miss |-> 0, total |-> 0]
    ELSE LET a == AggregationAfter(m, n - 1)
             name == inFile[n]
         IN IF ~Yields(name) THEN a
            ELSE IF IdOf(name) \in Keys(a.table)
            THEN LET l == Micros(a.table[IdOf(name)]) - Micros(TimeOf(name))
                     size == IF l < 0 THEN -l ELSE l
                 IN [table |-> [K \in Keys(a.table) \ {IdOf(name)} |-> a.table[K]],
                     sum |-> a.sum + size,
                     min |-> IF size < a.min THEN l ELSE a.min,
                     max |-> IF size > a.max THEN l ELSE a.max,
                     hit |-> a.hit + 1, miss |-> a.miss, total |-> a.total + 1]
            ELSE [a EXCEPT !.miss = a.miss + 1, !.total = a.total + 1]

\* records each loop has processed: those consumed, less the one returned to
\* a loop body that has not run yet
OutProcessed == out_reader.pos - (IF pc = "out_body" THEN 1 ELSE 0)
InProcessed == in_reader.pos - (IF pc = "in_body" THEN 1 ELSE 0)
C15_PrintingFlag ==
    LET a == AggregationAfter(OutProcessed, InProcessed) IN
    /\ out_interface_table = a.table
    /\ latency_sum = a.sum
    /\ latency_min = a.min
    /\ latency_max = a.max
    /\ latency_hit_count = a.hit
    /\ miss_count = a.miss
    /\ in_interface_packet_count = a.total

\* a finished run without per-packet output: only the summary was printed,
\* after a hit and a miss
C15_Witness ==
    /\ pc = "done" /\ disable_printing
    /\ latency_hit_count = 1 /\ miss_count = 1
    /\ Len(stdout) = 1

----------------------------------------------------------------------------
\* C16: the filter precedes parsing.  A record whose frame the filter
\* rejects is consumed and skipped, whatever its bytes: the step changes
\* nothing but the reader's position, and in particular never aborts the run,
\* also when the frame has protocol TCP or ICMP and a transport header cut
\* short; so a run aborted by the parser stands at a record the filter
\* accepts.
RejectedTable ==
    [f \in Filters |->
        {name \in DOMAIN Block : ~AllConstraintsHold(Block[name].data, f)}]
Rejected(name) == name \in RejectedTable[filter]
C16_Step ==
    AtRecord /\ Rejected(CurName) =>
        /\ Consumed /\ pc' = pc
        /\ UNCHANGED <<item, out_interface_table, stats, stdout, stderr, log>>
\* the record an aborted run stands at: the next one of the capture it was
\* reading
AbortedAt ==
    IF in_reader.open THEN inFile[in_reader.pos + 1] ELSE outFile[out_reader.pos + 1]
C16_FilterFirst ==
    /\ [](Aborted => ~Rejected(AbortedAt))
    /\ [][C16_Step]_vars

\* a rejected frame that the parser would have aborted on has been skipped
C16_Witness ==
    /\ filter = TcpOnlyFilter
    /\ outFile = <<"badicmp">>
    /\ ParsedTable["badicmp"].panic
    /\ out_reader.pos = 1 /\ pc = "in_next"

----------------------------------------------------------------------------
\* C17: frame conditions of the second loop's body.  Processing an inbound
\* record whose identity is not a key of the table adds one to miss_count and
\* to total_inbound_count and leaves the table, latency_sum, latency_min,
\* latency_max and hit_count as they are; processing one whose identity is a
\* key removes that key and no other, leaves the other entries' times as they
\* are, and leaves miss_count as it is.
InBody == pc = "in_body"
Pulled == item.val.id
C17_Step ==
    /\ InBody /\ Pulled \notin Keys(out_interface_table) =>
          /\ miss_count' = miss_count + 1
          /\ in_interface_packet_count' = in_interface_packet_count + 1
          /\ UNCHANGED <<out_interface_table, latency_sum, latency_min,
                         latency_max, latency_hit_count>>
    /\ InBody /\ Pulled \in Keys(out_interface_table) =>
          /\ Keys(out_interface_table') = Keys(out_interface_table) \ {Pulled}
          /\ \A K \in Keys(out_interface_table') :
                out_interface_table'[K] = out_interface_table[K]
          /\ miss_count' = miss_count
C17_FrameConditions == [][C17_Step]_vars

\* a miss processed with an entry in the table and results other than the
\* initial ones, after a hit that left the other entry in place
C17_Witness ==
    /\ pc = "in_next"
    /\ Len(log) = 2 /\ log[1].hit /\ ~log[2].hit
    /\ latency_sum > 0 /\ latency_hit_count = 1 /\ miss_count = 1
    /\ Cardinality(Keys(out_interface_table)) = 1

----------------------------------------------------------------------------
\* C18: min/max tracking for non-negative latencies.  When at least one hit
\* has occurred and no hit so far had a negative latency, latency_min is the
\* smallest and latency_max the largest latency recorded so far, latency_min
\* is at most latency_max, and the jitter (latency_max - latency_min, as the
\* summary prints it) is not negative.
NoNegativeLatency == \A l \in Latencies : l >= 0
C18_MinMaxNonNegative ==
    latency_hit_count >= 1 /\ NoNegativeLatency =>
        /\ latency_min = MinOf(Latencies)
        /\ latency_max = MaxOf(Latencies)
        /\ latency_min <= latency_max
        /\ latency_max - latency_min >= 0
        /\ pc = "done" =>
              /\ Printed.jitter = latency_max - latency_min
              /\ Printed.jitter >= 0

\* two hits with different latencies, neither negative, and the summary printed
C18_Witness ==
    /\ pc = "done"
    /\ latency_hit_count = 2 /\ NoNegativeLatency
    /\ Cardinality(Latencies) = 2
    /\ Printed.jitter > 0


====
